---- MODULE Spec2Model ----
(***************************************************************************)
(* A model of libbplus (src/bplus.c): the packed-array binary searches,    *)
(* the data (leaf) node insert/split and the inner node insert/split.      *)
(*                                                                         *)
(* Memory is modelled at the granularity the code addresses it:            *)
(*   - a key is KeySize bytes, a value ValueSize bytes, compared by memcmp *)
(*   - a data node's content is max_key_num item slots followed by the     *)
(*     pnext pointer; key_size + value_size = sizeof(pointer), as in       *)
(*     TEST(LeafNode, Split), so the region that follows the last slot is  *)
(*     exactly the pnext pointer                                           *)
(*   - an inner node's content is max_key_num (pointer, key) slots and one *)
(*     trailing pointer; with key_size = 4 the key of the slot at index    *)
(*     max_key_num falls in the padding of the allocation                  *)
(*   - slots beyond key_num keep whatever bytes were last written there    *)
(* A node pointer is the index of the node in heap; NULL is 0.             *)
(***************************************************************************)
EXTENDS Integers, Sequences, FiniteSets, TLC

VARIABLES heap, head, call, hist, status, sContent, sTarget, sRes

vars == <<heap, head, call, hist, status, sContent, sTarget, sRes>>

KeySize == 4
ValueSize == 4
PtrSize == 8

MaxKeyByte == 1
MaxKvNum == 2
MaxIdxNum == 2
MaxItems == 4
MaxLeafItems == 4
MaxLen == 4
MaxNodes == 3

NULL == 0

\* ------------------------------------------------------------------ bytes

Key(a, b) == [i \in 1..KeySize |-> IF i = 1 THEN a ELSE IF i = 2 THEN b ELSE 0]
Value(v) == [i \in 1..ValueSize |-> IF i = 1 THEN v ELSE 0]

Keys == {Key(0, b) : b \in 0..MaxKeyByte} \cup {Key(1, 0)}

ZeroKey == [i \in 1..KeySize |-> 0]
ZeroValue == [i \in 1..ValueSize |-> 0]
ZeroItem == [key |-> ZeroKey, value |-> ZeroValue]
ZeroSlot == [ptr |-> NULL, key |-> ZeroKey]

\* memcmp(a, b, size): the difference of the first differing bytes.
memcmp(a, b, size) ==
    LET d == {i \in 1..size : a[i] # b[i]}
    IN  IF d = {} THEN 0
        ELSE LET m == CHOOSE i \in d : \A j \in d : i <= j
             IN  a[m] - b[m]

bp_compare(a, b, size) == memcmp(a, b, size)

\* A caller-supplied bp_compare_f: the reverse of the byte order.
CompareReverse == 1
reverse_compare(a, b, size) == memcmp(b, a, size)

\* compare = compare ? compare : bp_compare
ApplyCompare(compare, a, b, size) ==
    IF compare = NULL THEN bp_compare(a, b, size) ELSE reverse_compare(a, b, size)

\* A pointer value stored in a data node's pnext region: a node reference
\* written by bp_data_node_set_pnext, or the bytes of an item copied there.
NodePtr(id) == [kind |-> "node", id |-> id, bytes |-> ZeroItem]
NullPtr == NodePtr(NULL)
PtrFromBytes(item) ==
    IF item = ZeroItem THEN NullPtr
    ELSE [kind |-> "bytes", id |-> NULL, bytes |-> item]

\* ---------------------------------------------------------- binary search
\* content is the packed array as a sequence of items (1-based), each with
\* a key field at the searched offset; item_num = content_len / item_size.
\* Indices low, high, mid and the returned idx are 0-based as in the code.

RECURSIVE bi_search_loop_off(_, _, _, _, _, _, _, _)
bi_search_loop_off(content, target, compare, item_num, low, high, mid0, comp_res0) ==
    IF low <= high
    THEN LET half0 == item_num \div 2
             half_item_num == IF half0 = 0 THEN 1 ELSE half0
             mid == low + (half_item_num - 1)
             comp_res == ApplyCompare(compare, target, content[mid + 1].key, KeySize)
         IN  IF 0 = comp_res THEN [found |-> 1, idx |-> mid]
             ELSE IF 0 < comp_res
                  THEN bi_search_loop_off(content, target, compare,
                           item_num - half_item_num, mid + 1, high, mid, comp_res)
                  ELSE bi_search_loop_off(content, target, compare,
                           half_item_num - 1, low, mid - 1, mid, comp_res)
    ELSE IF comp_res0 < 0 THEN [found |-> 0, idx |-> mid0 + 1]
         ELSE [found |-> 0, idx |-> low]

RECURSIVE bi_search_loop(_, _, _, _, _, _, _, _)
bi_search_loop(content, target, compare, item_num, low, high, mid0, comp_res0) ==
    IF low <= high
    THEN LET half0 == item_num \div 2
             half_item_num == IF half0 = 0 THEN 1 ELSE half0
             mid == low + (half_item_num - 1)
             comp_res == ApplyCompare(compare, target, content[mid + 1].key, KeySize)
         IN  IF 0 = comp_res THEN [found |-> 1, idx |-> mid]
             ELSE IF 0 < comp_res
                  THEN bi_search_loop(content, target, compare,
                           item_num - half_item_num, mid + 1, high, mid, comp_res)
                  ELSE bi_search_loop(content, target, compare,
                           half_item_num - 1, low, mid - 1, mid, comp_res)
    ELSE IF comp_res0 < 0 THEN [found |-> 0, idx |-> mid0]
         ELSE [found |-> 0, idx |-> low]

bp_bi_search_one(content, item_num, target, compare) ==
    IF 0 = item_num THEN [found |-> 0, idx |-> 0]
    ELSE bi_search_loop(content, target, compare, item_num, 0, item_num - 1, 0, 0)

RECURSIVE scan_first_stop(_, _, _, _)
scan_first_stop(content, target, compare, idx) ==
    IF idx > 1 /\ 0 = ApplyCompare(compare, content[idx].key, target, KeySize)
    THEN scan_first_stop(content, target, compare, idx - 1)
    ELSE idx

RECURSIVE scan_first(_, _, _, _)
scan_first(content, target, compare, idx) ==
    IF idx > 0 /\ 0 = ApplyCompare(compare, content[idx].key, target, KeySize)
    THEN scan_first(content, target, compare, idx - 1)
    ELSE idx

bp_bi_search_first(content, item_num, target, compare) ==
    LET one == bp_bi_search_one(content, item_num, target, compare)
    IN  IF 0 = one.found THEN one
        ELSE [found |-> 1, idx |-> scan_first(content, target, compare, one.idx)]

RECURSIVE scan_last_stop(_, _, _, _, _)
scan_last_stop(content, item_num, target, compare, idx) ==
    IF idx < item_num - 2
       /\ 0 = ApplyCompare(compare, content[idx + 2].key, target, KeySize)
    THEN scan_last_stop(content, item_num, target, compare, idx + 1)
    ELSE idx

RECURSIVE scan_last(_, _, _, _, _)
scan_last(content, item_num, target, compare, idx) ==
    IF idx < item_num - 1
       /\ 0 = ApplyCompare(compare, content[idx + 2].key, target, KeySize)
    THEN scan_last(content, item_num, target, compare, idx + 1)
    ELSE idx

bp_bi_search_last(content, item_num, target, compare) ==
    LET one == bp_bi_search_one(content, item_num, target, compare)
    IN  IF 0 = one.found THEN one
        ELSE [found |-> 1,
              idx |-> scan_last(content, item_num, target, compare, one.idx)]

\* ------------------------------------------------------------ data node
\* Each operator takes the heap and returns the heap it leaves, with the
\* values the C function returns or stores through its out parameters.

bp_data_node_need_split_late(data) == data.key_num > data.max_key_num

bp_data_node_need_split(data) == data.key_num >= data.max_key_num

bp_create_data_node(h, max_kv_num, min_kv_num, compare, malloc_ok) ==
    IF ~malloc_ok THEN [heap |-> h, node |-> NULL]
    ELSE [heap |-> Append(h,
              [type |-> "DATA", compare |-> compare,
               insert |-> "bp_data_node_insert_data",
               max_key |-> "bp_data_node_max_key",
               max_key_num |-> max_kv_num, min_key_num |-> min_kv_num,
               key_num |-> 0,
               content |-> [i \in 1..max_kv_num |-> ZeroItem],
               pnext |-> NullPtr]),
          node |-> Len(h) + 1]

bp_data_node_get_pnext(data) == data.pnext

bp_data_node_set_pnext(data, pnext) == [data EXCEPT !.pnext = pnext]

\* Lines 413-429: the split once the new node exists.
DataSplitInto_norelink(h1, to_split, new) ==
    LET old == h1[to_split]
        okn == old.key_num \div 2
        nkn == old.key_num - okn
        new1 == [h1[new] EXCEPT
                   !.key_num = nkn,
                   !.content = [i \in 1..old.max_key_num |->
                       IF i <= nkn THEN old.content[okn + i] ELSE ZeroItem]]
        old2 == bp_data_node_set_pnext([old EXCEPT !.key_num = okn], NodePtr(new))
    IN  [heap |-> [h1 EXCEPT ![to_split] = old2, ![new] = new1],
         ret |-> 0, pp_new |-> new]

DataSplitInto(h1, to_split, new) ==
    LET old == h1[to_split]
        old_data_num == old.key_num
        okn == old_data_num \div 2
        nkn == old_data_num - okn
        new1 == [h1[new] EXCEPT
                   !.key_num = nkn,
                   !.content = [i \in 1..h1[new].max_key_num |->
                       IF i <= nkn THEN old.content[okn + i]
                       ELSE h1[new].content[i]]]
        new2 == bp_data_node_set_pnext(new1, bp_data_node_get_pnext(old))
        old2 == bp_data_node_set_pnext([old EXCEPT !.key_num = okn], NodePtr(new))
    IN  [heap |-> [h1 EXCEPT ![to_split] = old2, ![new] = new2],
         ret |-> 0, pp_new |-> new]

\* Lines 404-411: c is what bp_create_data_node returned.
DataSplitWith(h, to_split, c) ==
    IF c.node = NULL THEN [heap |-> h, ret |-> -1, pp_new |-> NULL]
    ELSE DataSplitInto(c.heap, to_split, c.node)

bp_data_node_split(h, to_split, malloc_ok) ==
    DataSplitWith(h, to_split,
        bp_create_data_node(h, h[to_split].max_key_num, h[to_split].min_key_num,
                            h[to_split].compare, malloc_ok))

\* The loop at lines 492-496: tmp runs from slot key_num + 1 down to the
\* slot after dst, each step copying slot tmp - 1 into slot tmp.  Slot
\* max_key_num (0-based) is the pnext region.
ShiftItems(data, dst_idx) ==
    LET n == data.key_num
        top == n + 1
    IN  [data EXCEPT
           !.content = [i \in 1..data.max_key_num |->
               IF i - 1 > dst_idx /\ i - 1 <= top THEN data.content[i - 1]
               ELSE data.content[i]],
           !.pnext = IF top = data.max_key_num /\ top > dst_idx
                     THEN PtrFromBytes(data.content[data.max_key_num])
                     ELSE data.pnext]

\* Lines 466-480: after a split, the half that receives the item and the
\* caller's key buffer.  Line 477 calls memcpy where a comparison is meant:
\* it overwrites the caller's key with the new half's minimum key and
\* returns key, which is never 0, so the old half is kept.
ChooseHalf_old(h1, node, pp_new, key) == [target |-> node, key |-> key]

ChooseHalf(h1, node, pp_new, key) ==
    IF pp_new = NULL THEN [target |-> node, key |-> key]
    ELSE LET old == h1[node]
             max_key_of_data == old.content[old.key_num].key
             cmp_res == memcmp(key, max_key_of_data, KeySize)
             min_key_of_new == h1[pp_new].content[1].key
         IN  IF 0 < cmp_res THEN [target |-> pp_new, key |-> key]
             ELSE IF 0 = cmp_res THEN [target |-> node, key |-> min_key_of_new]
             ELSE [target |-> node, key |-> key]

\* Lines 487-489: dst is the found slot, or the slot after it on a match.
InsertDst_at(r) == r.idx

InsertDst(r) == IF r.found = 1 THEN r.idx + 1 ELSE r.idx

\* Lines 491-503: make room at dst, write the item, count it.
DataWriteItem(h1, target, dst_idx, key, position, pp_new) ==
    LET data == h1[target]
        shifted == IF dst_idx < data.key_num THEN ShiftItems(data, dst_idx)
                   ELSE data
        written == [shifted EXCEPT
                      !.content[dst_idx + 1] = [key |-> key, value |-> position],
                      !.key_num = data.key_num + 1]
    IN  [heap |-> [h1 EXCEPT ![target] = written],
         ret |-> 0, pp_new |-> pp_new, key |-> key]

\* Lines 482-489: the insertion point in the chosen half.
DataInsertIntoHalf(h1, half, position, pp_new) ==
    DataWriteItem(h1, half.target,
        InsertDst(bp_bi_search_last(h1[half.target].content,
                                    h1[half.target].key_num, half.key,
                                    h1[half.target].compare)),
        half.key, position, pp_new)

\* Lines 461-480: s is the outcome of the split, if one was needed.
DataInsertAfterSplit(h, node, key, position, s) ==
    IF s.ret = -1
    THEN [heap |-> h, ret |-> -1, pp_new |-> NULL, key |-> key]
    ELSE DataInsertIntoHalf(s.heap, ChooseHalf(s.heap, node, s.pp_new, key),
                            position, s.pp_new)

bp_data_node_insert_data(h, node, key, position, malloc_ok) ==
    DataInsertAfterSplit(h, node, key, position,
        IF bp_data_node_need_split(h[node])
        THEN bp_data_node_split(h, node, malloc_ok)
        ELSE [heap |-> h, ret |-> 0, pp_new |-> NULL])

bp_data_node_max_key(data, key_buf, key_buf_len) ==
    IF data.key_num <= 0 THEN [ret |-> -1, key_buf |-> key_buf]
    ELSE LET cp_len == IF key_buf_len < KeySize THEN key_buf_len ELSE KeySize
             src == data.content[data.key_num].key
         IN  [ret |-> cp_len,
              key_buf |-> [i \in DOMAIN key_buf |->
                              IF i <= cp_len THEN src[i] ELSE key_buf[i]]]

\* ----------------------------------------------------------- inner node

bp_create_inner_node(h, max_key_num, compare, malloc_ok) ==
    IF ~malloc_ok THEN [heap |-> h, node |-> NULL]
    ELSE [heap |-> Append(h,
              [type |-> "INNER", compare |-> compare,
               insert |-> "bp_inner_node_insert_data",
               max_key |-> "NULL",
               max_key_num |-> max_key_num, min_key_num |-> max_key_num \div 2,
               key_num |-> 0, key_total |-> 0,
               content |-> [i \in 1..(max_key_num + 1) |-> ZeroSlot]]),
          node |-> Len(h) + 1]

bp_inner_node_set_first_ptr(inner, first_data) ==
    [inner EXCEPT !.content[1].ptr = first_data]

bp_inner_node_get_insert_position(inner, found_idx) ==
    IF found_idx < inner.key_num THEN inner.content[found_idx + 1].ptr
    ELSE inner.content[inner.key_num].ptr

\* Lines 608-619: the split once the new node exists.
InnerSplitInto(h1, to_split, new) ==
    LET old == h1[to_split]
        old_data_num == old.key_num
        okn == old_data_num \div 2
        nkn == old_data_num - okn
        new1 == [h1[new] EXCEPT
                   !.key_num = nkn,
                   !.content = [i \in DOMAIN h1[new].content |->
                       IF i <= nkn THEN old.content[okn + i]
                       ELSE h1[new].content[i]]]
    IN  [heap |-> [h1 EXCEPT ![to_split] = [old EXCEPT !.key_num = okn],
                             ![new] = new1],
         ret |-> 0, pp_new |-> new]

\* Lines 600-606: c is what bp_create_inner_node returned.
InnerSplitWith(h, to_split, c) ==
    IF c.node = NULL THEN [heap |-> h, ret |-> -1, pp_new |-> NULL]
    ELSE InnerSplitInto(c.heap, to_split, c.node)

bp_inner_node_split(h, to_split, malloc_ok) ==
    InnerSplitWith(h, to_split,
        bp_create_inner_node(h, h[to_split].max_key_num, h[to_split].compare,
                             malloc_ok))

\* Defined at lines 720-738 and installed in no dispatch table.
bp_inner_node_max_key(inner, key_buf, key_buf_len) ==
    IF inner.key_num <= 0 THEN [ret |-> -1, key_buf |-> key_buf]
    ELSE LET cp_len == IF key_buf_len < KeySize THEN key_buf_len ELSE KeySize
             src == inner.content[inner.key_num].key
         IN  [ret |-> cp_len,
              key_buf |-> [i \in DOMAIN key_buf |->
                              IF i <= cp_len THEN src[i] ELSE key_buf[i]]]

\* node->max_key(node, key_buf, key_buf_len) through the dispatch table; a
\* call through the NULL entry of an inner node does not return.
NodeMaxKey(n, key_buf, key_buf_len) ==
    IF n.max_key = "bp_data_node_max_key"
    THEN [crash |-> FALSE] @@ bp_data_node_max_key(n, key_buf, key_buf_len)
    ELSE IF n.max_key = "bp_inner_node_max_key"
    THEN [crash |-> FALSE] @@ bp_inner_node_max_key(n, key_buf, key_buf_len)
    ELSE [crash |-> TRUE, ret |-> -1, key_buf |-> key_buf]

\* Line 636: the inner node splits before taking one more entry.
InnerIsFull_never(inner) == FALSE

InnerIsFull_early(inner) == inner.key_num >= inner.max_key_num - 1

InnerIsFull(inner) == inner.key_num = inner.max_key_num

\* Lines 641-649: the half that holds the child, and the child's slot in it.
InnerContainsChild(h1, inner, split_inner, child_idx) ==
    IF split_inner # NULL /\ ~(child_idx < h1[inner].key_num)
    THEN [node |-> split_inner, idx |-> child_idx - h1[inner].key_num]
    ELSE [node |-> inner, idx |-> child_idx]

\* Lines 651-671: refresh the child's key, shift the later slots, store the
\* new sibling after the child.  valid_data_len is taken from inner, also
\* when the child is in split_inner.
InnerPlaceSplitChild(h1, inner, child, split_child, at, split_inner) ==
    LET valid_items == h1[inner].key_num
        cidx == at.idx
        n0 == h1[at.node]
        mk1 == NodeMaxKey(h1[child], n0.content[cidx + 1].key, KeySize)
        n1 == [n0 EXCEPT !.content[cidx + 1].key = mk1.key_buf]
        \* slot j + 1 <- slot j for j from valid_items - 1 down to cidx + 1
        n2 == [n1 EXCEPT !.content = [i \in DOMAIN n1.content |->
                  IF i >= cidx + 3 /\ i <= valid_items + 1
                  THEN n1.content[i - 1] ELSE n1.content[i]]]
        mk2 == NodeMaxKey(h1[split_child], n2.content[cidx + 2].key, KeySize)
        n3 == [n2 EXCEPT !.content[cidx + 2] =
                             [ptr |-> split_child, key |-> mk2.key_buf],
                         !.key_num = n0.key_num + 1]
    IN  IF mk1.crash THEN [heap |-> h1, ret |-> -1,
                           split_inner |-> split_inner, crash |-> TRUE]
        ELSE IF mk2.crash
             THEN [heap |-> [h1 EXCEPT ![at.node] = n2],
                   ret |-> -1, split_inner |-> split_inner, crash |-> TRUE]
        ELSE [heap |-> [h1 EXCEPT ![at.node] = n3],
              ret |-> 0, split_inner |-> split_inner, crash |-> FALSE]

\* Lines 635-639: s is the outcome of the split, if one was needed.
InnerAddAfterSplit(h, inner, child, split_child, child_idx, s) ==
    IF s.ret = -1
    THEN [heap |-> h, ret |-> -1, split_inner |-> NULL, crash |-> FALSE]
    ELSE InnerPlaceSplitChild(s.heap, inner, child, split_child,
             InnerContainsChild(s.heap, inner, s.pp_new, child_idx), s.pp_new)

bp_inner_node_add_split_child(h, inner, child, split_child, child_idx, malloc_ok) ==
    InnerAddAfterSplit(h, inner, child, split_child, child_idx,
        IF InnerIsFull(h[inner]) THEN bp_inner_node_split(h, inner, malloc_ok)
        ELSE [heap |-> h, ret |-> 0, pp_new |-> NULL])

\* Lines 689-694: an empty inner node adopts key as its first key.
InnerAdoptFirstKey_overptr(inner, key) ==
    IF 0 = inner.key_num
    THEN [inner EXCEPT !.content[1] = [ptr |-> NULL, key |-> key], !.key_num = 1]
    ELSE inner

InnerAdoptFirstKey(inner, key) ==
    IF 0 = inner.key_num
    THEN [inner EXCEPT !.content[1].key = key, !.key_num = 1]
    ELSE inner

\* Lines 701-703: a key beyond the last one replaces the last key.
InnerWiden(inner, found_idx, key) ==
    IF found_idx = inner.key_num
    THEN [inner EXCEPT !.content[found_idx].key = key]
    ELSE inner

\* Lines 710-716 after bp_inner_node_add_split_child returned a: its return
\* value is not looked at.
InnerFinish(node, key, a) ==
    IF a.crash
    THEN [heap |-> a.heap, ret |-> -1, pp_new |-> a.split_inner, key |-> key,
          crash |-> TRUE]
    ELSE [heap |-> [a.heap EXCEPT ![node].key_total = @ + 1],
          ret |-> 0, pp_new |-> a.split_inner, key |-> key, crash |-> FALSE]

\* Lines 706-716: c is what child->insert returned; allocs is the number of
\* malloc calls that still succeed and len0 the heap size before the call.
InnerAfterChild(node, child, found_idx, allocs, len0, c) ==
    IF c.crash
    THEN [heap |-> c.heap, ret |-> -1, pp_new |-> NULL, key |-> c.key,
          crash |-> TRUE]
    ELSE IF -1 = c.ret
    THEN [heap |-> c.heap, ret |-> -1, pp_new |-> NULL, key |-> c.key,
          crash |-> FALSE]
    ELSE IF c.pp_new = NULL
    THEN [heap |-> [c.heap EXCEPT ![node].key_total = @ + 1],
          ret |-> 0, pp_new |-> NULL, key |-> c.key, crash |-> FALSE]
    ELSE InnerFinish(node, c.key,
             bp_inner_node_add_split_child(c.heap, node, child, c.pp_new,
                 found_idx, allocs - (Len(c.heap) - len0) > 0))

\* child->insert(child, key, position, &split_child) through the dispatch
\* table.
RECURSIVE bp_inner_node_insert_data(_, _, _, _, _)
NodeInsert(h, n, key, position, allocs) ==
    IF h[n].insert = "bp_data_node_insert_data"
    THEN [crash |-> FALSE]
         @@ bp_data_node_insert_data(h, n, key, position, allocs > 0)
    ELSE bp_inner_node_insert_data(h, n, key, position, allocs)

\* Lines 704-708: a null child pointer is dereferenced by child->insert.
InnerCallChild(h2, node, key, position, allocs, found_idx, child) ==
    IF child = NULL
    THEN [heap |-> h2, ret |-> -1, pp_new |-> NULL, key |-> key, crash |-> TRUE]
    ELSE InnerAfterChild(node, child, found_idx, allocs, Len(h2),
             NodeInsert(h2, child, key, position, allocs))

\* Lines 701-705.
InnerRoute(h, node, key, position, allocs, inner2, found_idx) ==
    InnerCallChild([h EXCEPT ![node] = inner2], node, key, position, allocs,
        found_idx, bp_inner_node_get_insert_position(inner2, found_idx))

\* Lines 696-703.
InnerSearch(h, node, key, position, allocs, inner1, found_idx) ==
    InnerRoute(h, node, key, position, allocs,
        InnerWiden(inner1, found_idx, key), found_idx)

InnerDescend(h, node, key, position, allocs, inner1) ==
    InnerSearch(h, node, key, position, allocs, inner1,
        bp_bi_search_last(inner1.content, inner1.key_num, key,
                          inner1.compare).idx)

bp_inner_node_insert_data(h, node, key, position, allocs) ==
    InnerDescend(h, node, key, position, allocs,
        InnerAdoptFirstKey(h[node], key))

\* ------------------------------------------------------- state machines

NoCall == [op |-> "none", node |-> NULL, key |-> ZeroKey, position |-> ZeroValue,
           ret |-> 0, pp_new |-> NULL, key_after |-> ZeroKey]
NoSearch == [fn |-> "none", found |-> 0, idx |-> 0]
NoHist == [keys |-> {}, dup |-> FALSE, sib |-> {}]

DataNodes(h) == {n \in 1..Len(h) : h[n].type = "DATA"}
InnerNodes(h) == {n \in 1..Len(h) : h[n].type = "INNER"}

RECURSIVE ItemCountUpTo(_, _)
ItemCountUpTo(h, n) ==
    IF n = 0 THEN 0
    ELSE ItemCountUpTo(h, n - 1) + (IF h[n].type = "DATA" THEN h[n].key_num ELSE 0)

ItemCount(h) == ItemCountUpTo(h, Len(h))

\* The position stored with a key is the ordinal of the record among those
\* the leaves hold, so positions tell entries with equal keys apart.
NextPosition(h) == Value(ItemCount(h) + 1)

\* The packed arrays handed to the searches: sorted by key, duplicates kept.
SortedContents ==
    {c \in UNION {[1..n -> {[key |-> k, value |-> ZeroValue] : k \in Keys}] :
                      n \in 0..MaxLen} :
        \A i \in 1..(Len(c) - 1) : memcmp(c[i].key, c[i + 1].key, KeySize) <= 0}

InitSearch ==
    /\ heap = <<>>
    /\ head = NULL
    /\ call = NoCall
    /\ hist = NoHist
    /\ status = "ok"
    /\ sContent \in SortedContents
    /\ sTarget \in Keys
    /\ sRes = NoSearch

SearchOne ==
    /\ sRes' = [fn |-> "bp_bi_search_one"]
                @@ bp_bi_search_one(sContent, Len(sContent), sTarget, NULL)
    /\ UNCHANGED <<heap, head, call, hist, status, sContent, sTarget>>

SearchFirst ==
    /\ sRes' = [fn |-> "bp_bi_search_first"]
                @@ bp_bi_search_first(sContent, Len(sContent), sTarget, NULL)
    /\ UNCHANGED <<heap, head, call, hist, status, sContent, sTarget>>

SearchLast ==
    /\ sRes' = [fn |-> "bp_bi_search_last"]
                @@ bp_bi_search_last(sContent, Len(sContent), sTarget, NULL)
    /\ UNCHANGED <<heap, head, call, hist, status, sContent, sTarget>>

NextSearch == SearchOne \/ SearchFirst \/ SearchLast

SpecSearch == InitSearch /\ [][NextSearch]_vars

FirstLeaf(h) == CHOOSE n \in DataNodes(h) : \A m \in DataNodes(h) : n <= m

\* The nodes TEST(LeafNode, Insert) holds: data, the leaf it created, and
\* split, the sibling the last call returned.
LeafHandles == {FirstLeaf(heap), call.pp_new} \ {NULL}

\* A data node driven directly, as TEST(LeafNode, Insert) does.
InitLeaf ==
    /\ heap = bp_create_data_node(<<>>, MaxKvNum, MaxIdxNum \div 2, NULL, TRUE).heap
    /\ head = NULL
    /\ call = NoCall
    /\ hist = NoHist
    /\ status = "ok"
    /\ sContent = <<>>
    /\ sTarget = ZeroKey
    /\ sRes = NoSearch

LeafInsert ==
    \E n \in LeafHandles, k \in Keys, malloc_ok \in BOOLEAN :
        /\ ItemCount(heap) < MaxLeafItems
        /\ bp_data_node_need_split(heap[n]) => Len(heap) < MaxNodes
        /\ LET v == NextPosition(heap)
               r == bp_data_node_insert_data(heap, n, k, v, malloc_ok)
           IN  /\ heap' = r.heap
               /\ call' = [op |-> "bp_data_node_insert_data", node |-> n,
                           key |-> k, position |-> v, ret |-> r.ret,
                           pp_new |-> r.pp_new, key_after |-> r.key]
               /\ hist' = IF r.ret = 0 /\ r.pp_new # NULL
                          THEN [hist EXCEPT !.sib = @ \cup {<<n, r.pp_new>>}]
                          ELSE hist
        /\ UNCHANGED <<head, status, sContent, sTarget, sRes>>

LeafSplit ==
    \E n \in LeafHandles, malloc_ok \in BOOLEAN :
        /\ Len(heap) < MaxNodes
        /\ LET r == bp_data_node_split(heap, n, malloc_ok)
           IN  /\ heap' = r.heap
               /\ call' = [op |-> "bp_data_node_split", node |-> n,
                           key |-> ZeroKey, position |-> ZeroValue,
                           ret |-> r.ret, pp_new |-> r.pp_new,
                           key_after |-> ZeroKey]
        /\ UNCHANGED <<head, hist, status, sContent, sTarget, sRes>>

NextLeaf == LeafInsert \/ LeafSplit

SpecLeaf == InitLeaf /\ [][NextLeaf]_vars

\* An inner node over one empty data node, as TEST(InnerNode, Insert) sets up.
InitTree ==
    /\ LET hd == bp_create_inner_node(<<>>, MaxIdxNum, NULL, TRUE)
           dt == bp_create_data_node(hd.heap, MaxKvNum, MaxIdxNum \div 2, NULL, TRUE)
       IN  /\ heap = [dt.heap EXCEPT ![hd.node] =
                          bp_inner_node_set_first_ptr(dt.heap[hd.node], dt.node)]
           /\ head = hd.node
    /\ call = NoCall
    /\ hist = NoHist
    /\ status = "ok"
    /\ sContent = <<>>
    /\ sTarget = ZeroKey
    /\ sRes = NoSearch

\* The mallocs a leaf split under an inner node of height 1 can need: one
\* for the leaf's sibling and one for the inner node's.
AllocBudgets == 0..2

\* One call of bp_inner_node_insert_data on the head, while the leaves hold
\* fewer than max_items items.  malloc_failed tells whether the call met a
\* malloc that returned NULL: the call with every malloc succeeding creates
\* more nodes than allocs allows.
InnerInsertUpTo(max_items) ==
    \E k \in Keys, allocs \in AllocBudgets :
        /\ status = "ok"
        /\ ItemCount(heap) < max_items
        /\ LET v == NextPosition(heap)
               r == bp_inner_node_insert_data(heap, head, k, v, allocs)
               all == bp_inner_node_insert_data(heap, head, k, v, 2)
           IN  /\ heap' = r.heap
               /\ status' = IF r.crash THEN "crashed" ELSE "ok"
               /\ call' = [op |-> "bp_inner_node_insert_data", node |-> head,
                           key |-> k, position |-> v, ret |-> r.ret,
                           pp_new |-> r.pp_new, key_after |-> r.key,
                           malloc_failed |-> Len(all.heap) - Len(heap) > allocs]
               /\ hist' = IF r.crash \/ r.ret # 0 THEN hist
                          ELSE [hist EXCEPT !.keys = @ \cup {k},
                                            !.dup = @ \/ k \in hist.keys]
        /\ UNCHANGED <<head, sContent, sTarget, sRes>>

InnerInsert == InnerInsertUpTo(MaxItems)

\* The handle bp_create_tree returns for the nodes of InitTree.
TreeHandle ==
    [max_idx_num |-> heap[head].max_key_num,
     max_data_num |-> heap[FirstLeaf(heap)].max_key_num,
     key_size |-> KeySize, value_size |-> ValueSize,
     head |-> head, data |-> FirstLeaf(heap)]

\* bp_insert: the two length tests and return 0; the function has no other
\* statement.
bp_insert_nolen(tree, key, key_len, position, position_len) == 0

bp_insert(tree, key, key_len, position, position_len) ==
    IF tree.key_size # key_len THEN -1
    ELSE IF tree.value_size # position_len THEN -1
    ELSE 0

TreeInsert ==
    \E k \in Keys, key_len \in {KeySize - 1, KeySize},
       position_len \in {ValueSize, ValueSize + 1} :
        /\ status = "ok"
        /\ LET v == NextPosition(heap)
           IN  call' = [op |-> "bp_insert", node |-> head, key |-> k,
                        position |-> v, pp_new |-> NULL, key_after |-> k,
                        key_len |-> key_len, position_len |-> position_len,
                        ret |-> bp_insert(TreeHandle, k, key_len, v, position_len)]
        /\ UNCHANGED <<heap, head, hist, status, sContent, sTarget, sRes>>

\* node->max_key(node, key_buf, KeySize) on any node, with a zeroed buffer.
MaxKeyCall ==
    \E n \in 1..Len(heap) :
        /\ status = "ok"
        /\ LET r == NodeMaxKey(heap[n], ZeroKey, KeySize)
           IN  /\ status' = IF r.crash THEN "crashed" ELSE "ok"
               /\ call' = [op |-> "max_key", node |-> n, key |-> ZeroKey,
                           position |-> ZeroValue, ret |-> r.ret,
                           pp_new |-> NULL, key_after |-> r.key_buf]
        /\ UNCHANGED <<heap, head, hist, sContent, sTarget, sRes>>

Next == InnerInsert \/ TreeInsert \/ MaxKeyCall

Spec == InitTree /\ [][Next]_vars

\* The same with every capacity one larger, so that inner nodes of even and
\* of odd capacity are both covered, and for enough inserts to fill and
\* split such an inner node.
WideIdxNum == MaxIdxNum + 1
WideKvNum == MaxKvNum + 1
WideItems == MaxItems + 3

InitWide ==
    /\ LET hd == bp_create_inner_node(<<>>, WideIdxNum, NULL, TRUE)
           dt == bp_create_data_node(hd.heap, WideKvNum, WideIdxNum \div 2, NULL, TRUE)
       IN  /\ heap = [dt.heap EXCEPT ![hd.node] =
                          bp_inner_node_set_first_ptr(dt.heap[hd.node], dt.node)]
           /\ head = hd.node
    /\ call = NoCall
    /\ hist = NoHist
    /\ status = "ok"
    /\ sContent = <<>>
    /\ sTarget = ZeroKey
    /\ sRes = NoSearch

WideInsert == InnerInsertUpTo(WideItems)

NextWide == WideInsert

SpecWide == InitWide /\ [][NextWide]_vars

\* ----------------------------------------------------------- properties

LeafItems(h, n) == [i \in 1..h[n].key_num |-> h[n].content[i]]

KeysOf(items) == [i \in DOMAIN items |-> items[i].key]

NonDecreasing(ks) ==
    \A i \in 1..(Len(ks) - 1) : memcmp(ks[i], ks[i + 1], KeySize) <= 0

StrictlyAscending(ks) ==
    \A i \in 1..(Len(ks) - 1) : memcmp(ks[i], ks[i + 1], KeySize) < 0

\* The leaves met from leaf n by following pnext while it refers to a node.
RECURSIVE Chain(_, _, _)
Chain(h, n, fuel) ==
    LET p == h[n].pnext
    IN  <<n>> \o (IF p.kind = "node" /\ p.id # NULL /\ fuel > 0
                  THEN Chain(h, p.id, fuel - 1) ELSE <<>>)

RECURSIVE ChainKeysOf(_, _)
ChainKeysOf(h, c) ==
    IF c = <<>> THEN <<>>
    ELSE KeysOf(LeafItems(h, c[1])) \o ChainKeysOf(h, Tail(c))

LeafChain(h) == Chain(h, FirstLeaf(h), Len(h))

ChainEndsInNull(h) ==
    LET c == LeafChain(h)
    IN  Len(c) <= Len(h) /\ h[c[Len(c)]].pnext = NullPtr

Range(f) == {f[i] : i \in DOMAIN f}

\* C1: after any sequence of successful inner-node inserts with pairwise
\* distinct keys, the walk from the first leaf through the next links ends
\* in a null link and visits exactly the inserted keys, each once, in
\* ascending order.
C1_RoundTrip ==
    (status = "ok" /\ ~hist.dup) =>
        LET ks == ChainKeysOf(heap, LeafChain(heap))
        IN  /\ ChainEndsInNull(heap)
            /\ StrictlyAscending(ks)
            /\ Range(ks) = hist.keys
            /\ Len(ks) = Cardinality(hist.keys)

\* C2: after every inner-node insert that returned 0, every counted slot of
\* the inner node holds a non-null child and the maximum key of that child.
C2_Separator ==
    (status = "ok" /\ call.op = "bp_inner_node_insert_data" /\ call.ret = 0) =>
        \A i \in 1..heap[head].key_num :
            LET slot == heap[head].content[i]
            IN  /\ slot.ptr # NULL
                /\ heap[slot.ptr].key_num >= 1
                /\ slot.key = heap[slot.ptr].content[heap[slot.ptr].key_num].key

AllLeq(ks1, ks2) ==
    \A i \in DOMAIN ks1 : \A j \in DOMAIN ks2 :
        memcmp(ks1[i], ks2[j], KeySize) <= 0

LeafKeys(h, n) == KeysOf(LeafItems(h, n))

EveryLeafSorted == \A n \in DataNodes(heap) : NonDecreasing(LeafKeys(heap, n))

\* C3, as stated: after any sequence of leaf inserts, every leaf's keys are
\* non-decreasing and every key of a leaf an insert split is <= every key
\* of the sibling that insert produced.  Read on the histories in which
\* every leaf but the first was produced by an insert.
C3_LeafOrderAlways ==
    (Len(heap) = 1 + Cardinality(hist.sib)) =>
        /\ EveryLeafSorted
        /\ \A pr \in hist.sib :
               AllLeq(LeafKeys(heap, pr[1]), LeafKeys(heap, pr[2]))

\* C3, amended: in every state every leaf's keys are non-decreasing, and
\* when a leaf insert returns 0 with a new sibling, every key of the leaf
\* is <= every key of that sibling at the return of the call.
C3_LeafOrder ==
    /\ EveryLeafSorted
    /\ (call.op = "bp_data_node_insert_data" /\ call.ret = 0
            /\ call.pp_new # NULL) =>
           AllLeq(LeafKeys(heap, call.node), LeafKeys(heap, call.pp_new))

\* An insert has split a leaf and both halves hold keys, the sibling two.
C3_Witness ==
    /\ call.op = "bp_data_node_insert_data"
    /\ call.ret = 0
    /\ call.pp_new # NULL
    /\ heap[call.node].key_num >= 1
    /\ heap[call.pp_new].key_num >= 2
    /\ heap[call.pp_new].content[1].key # heap[call.pp_new].content[2].key

ValuesWithKey(items, k) ==
    LET HasKey(it) == it.key = k
        sel == SelectSeq(items, HasKey)
    IN  [i \in DOMAIN sel |-> sel[i].value]

\* The entries of the leaf an insert was called on, followed by those of
\* the sibling the call returned.
CallItems(h, c) ==
    LeafItems(h, c.node)
        \o (IF c.pp_new # NULL THEN LeafItems(h, c.pp_new) ELSE <<>>)

\* C4: a leaf insert of (k, v) that returns 0 while entries with key k
\* exist leaves, in the leaf followed by the new sibling, the values of the
\* entries with key k as they were, followed by v.
C4_DuplicateStable ==
    [][(/\ call'.op = "bp_data_node_insert_data"
        /\ call'.ret = 0
        /\ ValuesWithKey(LeafItems(heap, call'.node), call'.key) # <<>>)
       => ValuesWithKey(CallItems(heap', call'), call'.key)
              = Append(ValuesWithKey(LeafItems(heap, call'.node), call'.key),
                       call'.position)]_vars

\* C5: a bp_data_node_split that returns 0 on a leaf with n items and next
\* link L leaves n \div 2 items in the leaf, gives the new leaf the other
\* n - n \div 2 items in their order, links the leaf to the new leaf and
\* the new leaf to L.
C5_LeafSplit ==
    [][(call'.op = "bp_data_node_split" /\ call'.ret = 0) =>
          LET old == heap[call'.node]
              n == old.key_num
          IN  /\ heap'[call'.node].key_num = n \div 2
              /\ heap'[call'.pp_new].key_num = n - n \div 2
              /\ LeafItems(heap', call'.pp_new)
                     = [i \in 1..(n - n \div 2) |-> old.content[n \div 2 + i]]
              /\ heap'[call'.node].pnext = NodePtr(call'.pp_new)
              /\ heap'[call'.pp_new].pnext = old.pnext]_vars

\* A direct split of a leaf that already had a next leaf gave the new leaf
\* an item and that next leaf.
C5_Witness ==
    /\ call.op = "bp_data_node_split"
    /\ call.ret = 0
    /\ heap[call.pp_new].key_num >= 1
    /\ heap[call.pp_new].pnext.kind = "node"
    /\ heap[call.pp_new].pnext.id # NULL
    /\ heap[call.node].pnext = NodePtr(call.pp_new)

LeafWasFull(c) == heap[c.node].key_num = heap[c.node].max_key_num

NonFullInsert(c) ==
    ~LeafWasFull(c) =>
        /\ c.ret = 0
        /\ c.pp_new = NULL
        /\ heap'[c.node].key_num = heap[c.node].key_num + 1

\* C6, as stated: a leaf insert returns a new sibling iff the leaf held
\* max_key_num items when the call started, and an insert into a leaf with
\* fewer items returns 0 with a null sibling and key_num one larger.
C6_SiblingIffFull ==
    [][call'.op = "bp_data_node_insert_data" =>
          /\ (call'.pp_new # NULL) <=> LeafWasFull(call')
          /\ NonFullInsert(call')]_vars

\* C6, amended: a leaf insert that returns 0 returns a new sibling iff the
\* leaf held max_key_num items when the call started; an insert into a leaf
\* with fewer items returns 0 with a null sibling and key_num one larger;
\* an insert that returns -1 was into a full leaf, returns a null sibling
\* and leaves every node as it was.
C6_SiblingIffFullOnSuccess ==
    [][call'.op = "bp_data_node_insert_data" =>
          /\ call'.ret \in {0, -1}
          /\ call'.ret = 0 => ((call'.pp_new # NULL) <=> LeafWasFull(call'))
          /\ call'.ret = -1 =>
                 (LeafWasFull(call') /\ call'.pp_new = NULL /\ heap' = heap)
          /\ NonFullInsert(call')]_vars

\* An insert into a full leaf returned 0 and a sibling, and the leaf and
\* the sibling hold max_key_num + 1 items between them.
C6_Witness ==
    /\ call.op = "bp_data_node_insert_data"
    /\ call.ret = 0
    /\ call.pp_new # NULL
    /\ heap[call.node].key_num + heap[call.pp_new].key_num
           = heap[call.node].max_key_num + 1

Present(content, target) == \E i \in DOMAIN content : content[i].key = target

\* The first 0-based position whose key is greater than target, the item
\* count when there is none.
FirstGreater(content, target) ==
    LET gt == {i \in DOMAIN content :
                  memcmp(content[i].key, target, KeySize) > 0}
    IN  IF gt = {} THEN Len(content)
        ELSE (CHOOSE i \in gt : \A j \in gt : i <= j) - 1

FirstEqual(content, target) ==
    (CHOOSE i \in DOMAIN content :
        /\ content[i].key = target
        /\ \A j \in DOMAIN content : content[j].key = target => i <= j) - 1

LastEqual(content, target) ==
    (CHOOSE i \in DOMAIN content :
        /\ content[i].key = target
        /\ \A j \in DOMAIN content : content[j].key = target => j <= i) - 1

\* C7: on a sorted packed array bp_bi_search_one returns 1 with the index of
\* an item whose key equals target iff some item's key equals target;
\* otherwise 0 with the first position whose key is greater than target,
\* the item count when target exceeds all keys, and 0 with index 0 on empty
\* content.
C7_SearchOne ==
    sRes.fn = "bp_bi_search_one" =>
        /\ sRes.found \in {0, 1}
        /\ (sRes.found = 1) <=> Present(sContent, sTarget)
        /\ sRes.found = 1 =>
               /\ sRes.idx \in 0..(Len(sContent) - 1)
               /\ sContent[sRes.idx + 1].key = sTarget
        /\ sRes.found = 0 => sRes.idx = FirstGreater(sContent, sTarget)
        /\ sContent = <<>> => (sRes.found = 0 /\ sRes.idx = 0)

\* bp_bi_search_one missed between two items.
C7_Witness ==
    /\ sRes.fn = "bp_bi_search_one"
    /\ sRes.found = 0
    /\ 0 < sRes.idx
    /\ sRes.idx < Len(sContent)

\* C8: on a sorted packed array bp_bi_search_first returns 1 and the
\* smallest index whose key equals target when target is present, and 0 and
\* the index bp_bi_search_one returns when it is absent.
C8_SearchFirst ==
    sRes.fn = "bp_bi_search_first" =>
        IF Present(sContent, sTarget)
        THEN /\ sRes.found = 1
             /\ sRes.idx = FirstEqual(sContent, sTarget)
        ELSE /\ sRes.found = 0
             /\ sRes.idx = FirstGreater(sContent, sTarget)
             /\ sRes.idx = bp_bi_search_one(sContent, Len(sContent), sTarget,
                                            NULL).idx

\* bp_bi_search_first moved left of the match bp_bi_search_one lands on.
C8_Witness ==
    /\ sRes.fn = "bp_bi_search_first"
    /\ sRes.found = 1
    /\ sRes.idx < bp_bi_search_one(sContent, Len(sContent), sTarget, NULL).idx

\* C9: on a sorted packed array bp_bi_search_last returns 1 and the largest
\* index whose key equals target when target is present, and 0 and the
\* index bp_bi_search_one returns when it is absent.
C9_SearchLast ==
    sRes.fn = "bp_bi_search_last" =>
        IF Present(sContent, sTarget)
        THEN /\ sRes.found = 1
             /\ sRes.idx = LastEqual(sContent, sTarget)
        ELSE /\ sRes.found = 0
             /\ sRes.idx = FirstGreater(sContent, sTarget)
             /\ sRes.idx = bp_bi_search_one(sContent, Len(sContent), sTarget,
                                            NULL).idx

\* bp_bi_search_last moved right of the match bp_bi_search_one lands on.
C9_Witness ==
    /\ sRes.fn = "bp_bi_search_last"
    /\ sRes.found = 1
    /\ sRes.idx > bp_bi_search_one(sContent, Len(sContent), sTarget, NULL).idx

C11_LeafChain ==
    status = "ok" =>
        LET c == LeafChain(heap)
        IN  /\ ChainEndsInNull(heap)
            /\ Range(c) = DataNodes(heap)
            /\ Len(c) = Cardinality(DataNodes(heap))
            /\ \A i \in 1..(Len(c) - 1) :
                   AllLeq(LeafKeys(heap, c[i]), LeafKeys(heap, c[i + 1]))

Entries(h, n) == [i \in 1..h[n].key_num |-> h[n].content[i]]

EntryKeys(h, n) == KeysOf(Entries(h, n))

\* C12: after any sequence of bp_inner_node_insert_data calls the separator
\* keys at slots 0..key_num-1 of every inner node are non-decreasing.
C12_InnerKeyOrder ==
    status = "ok" =>
        \A n \in InnerNodes(heap) : NonDecreasing(EntryKeys(heap, n))

\* The step is a bp_inner_node_insert_data call that returned 0, met no
\* failing malloc and created a leaf: a child leaf split.
ChildSplitStep ==
    /\ call'.op = "bp_inner_node_insert_data"
    /\ status' = "ok"
    /\ call'.ret = 0
    /\ ~call'.malloc_failed
    /\ Len(heap') > Len(heap)
    /\ heap'[Len(heap) + 1].type = "DATA"

\* The leaf the step changed, and the sibling the step created for it.
SplitChild == CHOOSE d \in DataNodes(heap) : heap'[d] # heap[d]

SplitSibling == Len(heap) + 1

NodeMax(h, n) == h[n].content[h[n].key_num].key

\* The entries of the parent before the step with the child's separator
\* refreshed and the sibling's entry put in after the child's.
AbsorbedEntries(E, j) ==
    [i \in 1..(Len(E) + 1) |->
        IF i < j THEN E[i]
        ELSE IF i = j THEN [ptr |-> SplitChild, key |-> NodeMax(heap', SplitChild)]
        ELSE IF i = j + 1
             THEN [ptr |-> SplitSibling, key |-> NodeMax(heap', SplitSibling)]
        ELSE E[i - 1]]

\* The entries of the inner node the call was made on, followed by those of
\* the sibling the call returned.
CallEntries(h, c) ==
    Entries(h, c.node)
        \o (IF c.pp_new # NULL THEN Entries(h, c.pp_new) ELSE <<>>)

\* C13: when a child leaf splits during bp_inner_node_insert_data, the
\* parent, or the two halves of it read one after the other, holds the
\* entries it held with the child's separator refreshed to the child's new
\* maximum key and the pair (sibling, sibling's maximum key) in the slot
\* after the child's: one entry more, the later ones one slot to the right,
\* none lost.
C13_AbsorbSplit ==
    [][ChildSplitStep =>
          LET E == Entries(heap, call'.node)
          IN  /\ \E j \in DOMAIN E : E[j].ptr = SplitChild
              /\ \A j \in DOMAIN E :
                     E[j].ptr = SplitChild =>
                         CallEntries(heap', call') = AbsorbedEntries(E, j)]_vars

InnerSplitStep == ChildSplitStep /\ call'.pp_new # NULL

CountOf(s, e) == Cardinality({i \in DOMAIN s : s[i] = e})

\* An inner node as a sequence of correct inserts leaves it: separators in
\* order, every counted slot referring to a child, no child twice.
WellFormed(h, n) ==
    LET E == Entries(h, n)
    IN  /\ NonDecreasing(KeysOf(E))
        /\ \A i \in DOMAIN E : E[i].ptr # NULL
        /\ \A i, j \in DOMAIN E : E[i].ptr = E[j].ptr => i = j

\* C14: when a full, well-formed inner node with n entries splits while it
\* absorbs a child's split, the two halves hold n + 1 entries together, old
\* holding n \div 2 of the former entries (plus the absorbed sibling if the
\* child is in old); every former (child, separator) pair of a child other
\* than the split one is present exactly once in old followed by new, the
\* split child has exactly one entry, and the separators read across old
\* then new are non-decreasing.
C14_InnerSplit ==
    [][(InnerSplitStep /\ WellFormed(heap, call'.node)) =>
          LET E == Entries(heap, call'.node)
              n == Len(E)
              old == Entries(heap', call'.node)
              post == CallEntries(heap', call')
          IN  /\ Len(post) = n + 1
              /\ Len(old) \in {n \div 2, n \div 2 + 1}
              /\ \A i \in DOMAIN E :
                     E[i].ptr # SplitChild => CountOf(post, E[i]) = 1
              /\ Cardinality({i \in DOMAIN post : post[i].ptr = SplitChild}) = 1
              /\ NonDecreasing(KeysOf(post))]_vars

LengthMismatch(c) ==
    c.op = "bp_insert" /\ (c.key_len # KeySize \/ c.position_len # ValueSize)

\* C15: a bp_insert call whose key_len differs from the tree's key_size or
\* whose position_len differs from its value_size returns -1 and changes no
\* node and no field of the tree handle.
C15_RejectLength ==
    [][LengthMismatch(call') =>
          /\ call'.ret = -1
          /\ heap' = heap
          /\ head' = head]_vars

\* A call with a short key on a tree that holds items was rejected.
C15_Witness ==
    /\ LengthMismatch(call)
    /\ call.key_len # KeySize
    /\ call.ret = -1
    /\ ItemCount(heap) > 0

\* The leaves the slots of inner node root refer to (slot 1 is set when the
\* tree is created, before any key is counted).
LeavesUnder(h, root) ==
    {h[root].content[i].ptr : i \in 1..(h[root].max_key_num + 1)}
        \cap DataNodes(h)

Stored(h, root, key, position) ==
    \E n \in LeavesUnder(h, root) : \E i \in 1..h[n].key_num :
        h[n].content[i] = [key |-> key, value |-> position]

\* C16: when bp_insert has returned 0 for a key and a value of the
\* configured lengths, the (key, value) pair is stored in a leaf reachable
\* from the tree's root.
C16_InsertStores ==
    (call.op = "bp_insert" /\ ~LengthMismatch(call) /\ call.ret = 0) =>
        Stored(heap, head, call.key, call.position)

RootSplitStep ==
    /\ call'.op = "bp_inner_node_insert_data"
    /\ call'.node = head
    /\ status' = "ok"
    /\ call'.ret = 0
    /\ call'.pp_new # NULL

\* C17: whenever the root's insert returns a new sibling, the tree's root
\* becomes a fresh inner node whose two children are the old root and the
\* new sibling.
C17_RootGrowth ==
    [][RootSplitStep =>
          /\ head' \in InnerNodes(heap') \ {head, call'.pp_new}
          /\ heap'[head'].key_num = 2
          /\ heap'[head'].content[1].ptr = head
          /\ heap'[head'].content[2].ptr = call'.pp_new]_vars

AllocFailStep ==
    /\ call'.op = "bp_inner_node_insert_data"
    /\ call'.malloc_failed
    /\ status' = "ok"

\* What a reader of node n sees: its count, its counted separators or
\* items, and its next link.
NodeView(h, n) ==
    IF h[n].type = "DATA"
    THEN [key_num |-> h[n].key_num, entries |-> LeafItems(h, n),
          pnext |-> h[n].pnext]
    ELSE [key_num |-> h[n].key_num, entries |-> Entries(h, n),
          pnext |-> NullPtr]

\* C18: if creating a split sibling fails during an insert started at an
\* inner node, the insert returns -1 and every node of the tree has the
\* same key_num, separators, items and links as before the call.
C18_AllocFailureUnchanged ==
    [][AllocFailStep =>
          /\ call'.ret = -1
          /\ \A n \in 1..Len(heap) : NodeView(heap', n) = NodeView(heap, n)]_vars

\* The child leaf split (its sibling is the one node the call created) and
\* a later allocation, the parent's own sibling, failed.
ParentAllocFailStep ==
    /\ AllocFailStep
    /\ Len(heap') = Len(heap) + 1
    /\ heap'[Len(heap) + 1].type = "DATA"

\* C19: if a child leaf has split and the full parent then fails to
\* allocate its own split sibling, bp_inner_node_insert_data returns -1.
C19_NoSwallowedFailure ==
    [][ParentAllocFailStep => call'.ret = -1]_vars

\* C20: the max-key operation invoked through the dispatch table of any
\* node the factories made returns: for a node with key_num >= 1 it yields
\* the key of the last counted slot, for an empty node it reports -1.
C20_MaxKeyDispatch ==
    call.op = "max_key" =>
        /\ status = "ok"
        /\ LET n == heap[call.node]
           IN  IF n.key_num >= 1
               THEN /\ call.ret = KeySize
                    /\ call.key_after = n.content[n.key_num].key
               ELSE call.ret = -1

LeafSplitInsertStep ==
    /\ call'.op = "bp_data_node_insert_data"
    /\ call'.ret = 0
    /\ call'.pp_new # NULL

\* Node n holds, in a counted slot, the item whose value is position.
HoldsValue(h, n, position) ==
    \E i \in 1..h[n].key_num : h[n].content[i].value = position

\* C21: after a full leaf splits, the new item goes to the new half if the
\* key is greater than the old half's maximum key, or equals it and also
\* equals the new half's minimum key; in every other case it goes to the
\* old half.
C21_HalfSelection ==
    [][LeafSplitInsertStep =>
          LET old == heap[call'.node]
              n == old.key_num
              max_key_of_data == old.content[n \div 2].key
              min_key_of_new == old.content[n \div 2 + 1].key
              cmp_res == memcmp(call'.key, max_key_of_data, KeySize)
              to_new == \/ cmp_res > 0
                        \/ cmp_res = 0 /\ call'.key = min_key_of_new
          IN  /\ HoldsValue(heap', call'.pp_new, call'.position) <=> to_new
              /\ HoldsValue(heap', call'.node, call'.position) <=> ~to_new]_vars

LeafInsertOkStep ==
    call'.op = "bp_data_node_insert_data" /\ call'.ret = 0

\* C22: after a successful bp_data_node_insert_data(k, v), the items of the
\* leaf together with its returned sibling are, as a multiset, the items the
\* leaf held before the call plus exactly (k, v), and the caller's key
\* buffer holds k as before the call.
C22_ItemsPreserved ==
    [][LeafInsertOkStep =>
          LET pre == LeafItems(heap, call'.node)
              post == CallItems(heap', call')
              new == [key |-> call'.key, value |-> call'.position]
          IN  /\ \A x \in Range(pre) \cup Range(post) \cup {new} :
                     CountOf(post, x)
                         = CountOf(pre, x) + (IF x = new THEN 1 ELSE 0)
              /\ call'.key_after = call'.key]_vars

\* C23: a leaf insert that does not split leaves the leaf's next link
\* unchanged, for every fill level below max_key_num, every insertion
\* position and whatever the slots beyond key_num hold.
C23_NextLinkKept ==
    [][(call'.op = "bp_data_node_insert_data" /\ ~LeafWasFull(call')) =>
          heap'[call'.node].pnext = heap[call'.node].pnext]_vars

\* A successful insert at an inner node of a key greater than every
\* separator the node held.
WidenStep ==
    /\ call'.op = "bp_inner_node_insert_data"
    /\ status' = "ok"
    /\ call'.ret = 0
    /\ heap[call'.node].key_num >= 1
    /\ \A i \in 1..heap[call'.node].key_num :
           memcmp(call'.key, heap[call'.node].content[i].key, KeySize) > 0

\* The node that holds the last entry once the call is over: the sibling
\* the call returned if the node split, the node itself otherwise.
UpperHalf(c) == IF c.pp_new # NULL THEN c.pp_new ELSE c.node

\* C24: when bp_inner_node_insert_data is called with a key greater than
\* every current separator, the item is stored in the node's last child (or
\* in the sibling that child split off) and, once the call completes, the
\* node's last separator is the maximum key stored in its last child,
\* whether or not that child split.
C24_Widening ==
    [][WidenStep =>
          LET inner == heap[call'.node]
              last_child == inner.content[inner.key_num].ptr
              after == heap'[UpperHalf(call')]
              last == after.content[after.key_num]
          IN  /\ \/ HoldsValue(heap', last_child, call'.position)
                 \/ /\ Len(heap') > Len(heap)
                    /\ HoldsValue(heap', Len(heap) + 1, call'.position)
              /\ last.ptr \in DataNodes(heap')
              /\ heap'[last.ptr].key_num >= 1
              /\ last.key = NodeMax(heap', last.ptr)]_vars

FirstInsertStep ==
    /\ call'.op = "bp_inner_node_insert_data"
    /\ heap[call'.node].key_num = 0
    /\ heap[call'.node].content[1].ptr \in DataNodes(heap)

\* C25: the first insert into an empty inner node whose leading child is set
\* returns 0 without a sibling; the node adopts the key as its first
\* separator, key_num becomes 1, the leading child reference is unchanged
\* and the (key, value) pair is stored in that child.
C25_FirstInsert ==
    [][FirstInsertStep =>
          LET child == heap[call'.node].content[1].ptr
              after == heap'[call'.node]
          IN  /\ status' = "ok"
              /\ call'.ret = 0
              /\ call'.pp_new = NULL
              /\ after.key_num = 1
              /\ after.content[1] = [ptr |-> child, key |-> call'.key]
              /\ \E i \in 1..heap'[child].key_num :
                     heap'[child].content[i]
                         = [key |-> call'.key, value |-> call'.position]]_vars

\* The first insert, of a key that is not all zero bytes, has returned.
C25_Witness ==
    /\ call.op = "bp_inner_node_insert_data"
    /\ call.ret = 0
    /\ call.key # ZeroKey
    /\ ItemCount(heap) = 1
    /\ heap[head].key_num = 1
    /\ heap[head].content[1].key = call.key

InnerInsertOkStep ==
    /\ call'.op = "bp_inner_node_insert_data"
    /\ status' = "ok"
    /\ call'.ret = 0

\* The call created a leaf: the child split.
ChildHasSplit == Len(heap') > Len(heap) /\ heap'[Len(heap) + 1].type = "DATA"

\* C26: a successful bp_inner_node_insert_data returns a non-null sibling
\* through pp_new if and only if the child split during the call and the
\* inner node held max_key_num entries when the call started.
C26_SplitPropagation ==
    [][InnerInsertOkStep =>
          ((call'.pp_new # NULL) <=>
               (/\ ChildHasSplit
                /\ heap[call'.node].key_num = heap[call'.node].max_key_num))]_vars

\* A data node created with a caller-supplied comparator, the reverse of
\* the byte order, and driven directly as in TEST(LeafNode, Insert).
InitLeafCmp ==
    /\ heap = bp_create_data_node(<<>>, MaxKvNum, MaxIdxNum \div 2,
                                  CompareReverse, TRUE).heap
    /\ head = NULL
    /\ call = NoCall
    /\ hist = NoHist
    /\ status = "ok"
    /\ sContent = <<>>
    /\ sTarget = ZeroKey
    /\ sRes = NoSearch

NextLeafCmp == LeafInsert \/ LeafSplit

SpecLeafCmp == InitLeafCmp /\ [][NextLeafCmp]_vars

NonDecreasingUnder(compare, ks) ==
    \A i \in 1..(Len(ks) - 1) : ApplyCompare(compare, ks[i], ks[i + 1], KeySize) <= 0

AllLeqUnder(compare, ks1, ks2) ==
    \A i \in DOMAIN ks1 : \A j \in DOMAIN ks2 :
        ApplyCompare(compare, ks1[i], ks2[j], KeySize) <= 0

EveryLeafSortedUnder ==
    \A n \in DataNodes(heap) :
        NonDecreasingUnder(heap[n].compare, LeafKeys(heap, n))

\* C27: for a leaf created with a caller-supplied total-order comparator,
\* after any sequence of inserts the keys of each leaf are non-decreasing
\* under that comparator, and the choice of half after a split uses the
\* same order as the search within the half: a key above the old half's
\* maximum under the comparator goes to the new half, a key below it to the
\* old half.
C27_ComparatorConsistency ==
    [][/\ EveryLeafSortedUnder'
       /\ LeafSplitInsertStep =>
              LET old == heap[call'.node]
                  max_key_of_data == old.content[old.key_num \div 2].key
                  cmp_res == ApplyCompare(old.compare, call'.key,
                                          max_key_of_data, KeySize)
              IN  /\ cmp_res > 0 =>
                         HoldsValue(heap', call'.pp_new, call'.position)
                  /\ cmp_res < 0 =>
                         HoldsValue(heap', call'.node, call'.position)]_vars

\* The nodes a split has touched.  Every call goes to the head and the one
\* leaf the tree starts with, so the first split of a kind splits that
\* node: once a second node of a kind exists, every node of that kind was
\* created by a split or has been split.
SplitNodes(h) ==
    (IF Cardinality(DataNodes(h)) > 1 THEN DataNodes(h) ELSE {})
        \cup (IF Cardinality(InnerNodes(h)) > 1 THEN InnerNodes(h) ELSE {})

RECURSIVE bi_search_run_stuck(_, _, _, _, _, _, _)
bi_search_run_stuck(content, target, compare, item_num, low, high, fuel) ==
    IF ~(low <= high) THEN [exited |-> TRUE, item_nums |-> <<>>]
    ELSE IF fuel = 0 THEN [exited |-> FALSE, item_nums |-> <<>>]
    ELSE LET half0 == item_num \div 2
             half_item_num == IF half0 = 0 THEN 1 ELSE half0
             mid == low + (half_item_num - 1)
             comp_res == ApplyCompare(compare, target, content[mid + 1].key, KeySize)
             rest == IF 0 = comp_res THEN [exited |-> TRUE, item_nums |-> <<>>]
                     ELSE IF 0 < comp_res
                     THEN bi_search_run_stuck(content, target, compare,
                              item_num - half_item_num, mid + 1, high, fuel - 1)
                     ELSE bi_search_run_stuck(content, target, compare,
                              half_item_num, low, mid, fuel - 1)
         IN  [exited |-> rest.exited, item_nums |-> <<item_num>> \o rest.item_nums]

RECURSIVE bi_search_run(_, _, _, _, _, _, _)
bi_search_run(content, target, compare, item_num, low, high, fuel) ==
    IF ~(low <= high) THEN [exited |-> TRUE, item_nums |-> <<>>]
    ELSE IF fuel = 0 THEN [exited |-> FALSE, item_nums |-> <<>>]
    ELSE LET half0 == item_num \div 2
             half_item_num == IF half0 = 0 THEN 1 ELSE half0
             mid == low + (half_item_num - 1)
             comp_res == ApplyCompare(compare, target, content[mid + 1].key, KeySize)
             rest == IF 0 = comp_res THEN [exited |-> TRUE, item_nums |-> <<>>]
                     ELSE IF 0 < comp_res
                     THEN bi_search_run(content, target, compare,
                              item_num - half_item_num, mid + 1, high, fuel - 1)
                     ELSE bi_search_run(content, target, compare,
                              half_item_num - 1, low, mid - 1, fuel - 1)
         IN  [exited |-> rest.exited, item_nums |-> <<item_num>> \o rest.item_nums]

\* More iterations than a loop that drops an item each time can make.
RunFuel(item_num) == item_num + 1

\* Lines 203-208 and the loop: what a call of bp_bi_search_one goes through.
SearchRun(content, target, compare) ==
    IF 0 = Len(content) THEN [exited |-> TRUE, item_nums |-> <<>>]
    ELSE bi_search_run(content, target, compare, Len(content), 0,
                       Len(content) - 1, RunFuel(Len(content)))

\* Every packed array of up to MaxLen items, sorted or not.
AnyContents ==
    UNION {[1..n -> {[key |-> k, value |-> ZeroValue] : k \in Keys}] :
               n \in 0..MaxLen}

InitSearchAny ==
    /\ heap = <<>>
    /\ head = NULL
    /\ call = NoCall
    /\ hist = NoHist
    /\ status = "ok"
    /\ sContent \in AnyContents
    /\ sTarget \in Keys
    /\ sRes = NoSearch

\* One call of a search on the array, with the default or a caller-supplied
\* comparator; one is what the bp_bi_search_one call inside it returned.
RunOne ==
    \E compare \in {NULL, CompareReverse} :
        /\ sRes' = [fn |-> "bp_bi_search_one", compare |-> compare,
                    one |-> bp_bi_search_one(sContent, Len(sContent), sTarget, compare),
                    run |-> SearchRun(sContent, sTarget, compare)]
                    @@ bp_bi_search_one(sContent, Len(sContent), sTarget, compare)
        /\ UNCHANGED <<heap, head, call, hist, status, sContent, sTarget>>

RunFirst ==
    \E compare \in {NULL, CompareReverse} :
        /\ sRes' = [fn |-> "bp_bi_search_first", compare |-> compare,
                    one |-> bp_bi_search_one(sContent, Len(sContent), sTarget, compare),
                    run |-> SearchRun(sContent, sTarget, compare)]
                    @@ bp_bi_search_first(sContent, Len(sContent), sTarget, compare)
        /\ UNCHANGED <<heap, head, call, hist, status, sContent, sTarget>>

RunLast ==
    \E compare \in {NULL, CompareReverse} :
        /\ sRes' = [fn |-> "bp_bi_search_last", compare |-> compare,
                    one |-> bp_bi_search_one(sContent, Len(sContent), sTarget, compare),
                    run |-> SearchRun(sContent, sTarget, compare)]
                    @@ bp_bi_search_last(sContent, Len(sContent), sTarget, compare)
        /\ UNCHANGED <<heap, head, call, hist, status, sContent, sTarget>>

NextSearchAny == RunOne \/ RunFirst \/ RunLast

SpecSearchAny == InitSearchAny /\ [][NextSearchAny]_vars

StrictlyDecreasing(s) == \A i \in 1..(Len(s) - 1) : s[i] > s[i + 1]

====
